---- MODULE Spec2Model ----
(***************************************************************************)
(* Model of .config/ardour8/scripts/midi_to_xdotool.py: the MIDI event     *)
(* loop (main thread) with its note and touchpad handlers, the repeater    *)
(* threads started by start_repeat, the shared window-handle cache of      *)
(* get_ardour_window and the two-attempt delivery of _run_with_window; and *)
(* of the repeat threads of the earlier variant midi_zoom.py.              *)
(*                                                                         *)
(* Thread 0 is the main thread; threads 1..MaxThreads are the slots in     *)
(* which repeater threads run.  Every step that reads or writes state      *)
(* shared between threads (ardour_window, a stop_event, a thread's         *)
(* liveness) is an action of its own, so that every interleaving the       *)
(* interpreter allows between those accesses is a behaviour of the model.  *)
(***************************************************************************)
EXTENDS Integers, Sequences, FiniteSets, TLC

(* ---- bounds of the model ---- *)
\* number of repeater threads that can exist at the same time
MaxThreads == 2
\* the per-thread dispatch counters stop counting at this value (the counter of
\* the dispatches after a cancellation: one later)
MaxCount == 1

(* ---- configuration (midi_to_xdotool.py:11-34) ---- *)
ARROW_KEY_REPEAT_COUNT == 1
ARROW_RIGHT_SINGLE_PRESS == 1
ARROW_RIGHT_REPEAT_COUNT == 3
MIDI_CHANNEL == 9
NOTE_ZOOM_IN == 49
NOTE_ARROW_LEFT == 68
NOTE_ARROW_RIGHT == 56
\* a pad that NOTE_ACTIONS does not map
NOTE_UNMAPPED == 60
\* a channel the control surface is not configured to send the pads on
OTHER_CHANNEL == 10
TOUCHPAD_CONTROLLER == 1
\* a controller that is not the touchpad's
OTHER_CONTROLLER == 7
\* 0.05 pixels per pitch-bend unit, as a fraction
TOUCHPAD_X_SENSITIVITY == [num |-> 5, den |-> 100]
TOUCHPAD_Y_SENSITIVITY == 4
DEBUG_NOTES_ON == TRUE
DEBUG_NOTES == FALSE

\* Optional[...] = None
None == "None"
\* hold_repeat_count: Optional[int] = None, as a number that is falsy like None
NoCount == 0

\* Action(kind, value, immediate_count = 1, hold_repeat_count = None)
Action(kind, value, immediate_count, hold_repeat_count) ==
  [kind |-> kind, value |-> value, immediate_count |-> immediate_count,
   hold_repeat_count |-> hold_repeat_count]

\* the entries of NOTE_ACTIONS the model keeps: one action that never repeats,
\* one that repeats with the count of its press, one that repeats with another
NOTE_ACTIONS ==
  (NOTE_ZOOM_IN :> Action("key", "minus", 1, NoCount)) @@
  (NOTE_ARROW_LEFT :> Action("key", "Left", ARROW_KEY_REPEAT_COUNT, ARROW_KEY_REPEAT_COUNT)) @@
  (NOTE_ARROW_RIGHT :> Action("key", "Right", ARROW_RIGHT_SINGLE_PRESS, ARROW_RIGHT_REPEAT_COUNT))

Notes == {NOTE_ZOOM_IN, NOTE_ARROW_LEFT, NOTE_ARROW_RIGHT, NOTE_UNMAPPED}
NoNote == 0

\* the notes whose action start_repeat does not return early on
RepeatNotes == {n \in DOMAIN NOTE_ACTIONS : NOTE_ACTIONS[n].hold_repeat_count # NoCount}

\* last_touchpad_cc / last_touchpad_pitch: Optional[int] = None, as a number no
\* controller sends
NoSample == 99999

\* int(x) of the float x = num / den: the fraction is cut off, towards zero
intFloor(num, den) == num \div den
int(num, den) == IF num >= 0 THEN num \div den ELSE -((-num) \div den)

\* debug(msg): the lines it writes to stderr
debugAlways(line) == <<line>>
debug(line) == IF DEBUG_NOTES THEN <<line>> ELSE <<>>

(* ---- threads ---- *)
\* no thread: a free lock, no handle in the registry (dict.get and pop give None)
NoThread == -1
Main == 0
Slots == 1..MaxThreads
Threads == {Main} \cup Slots

(* ---- the window automation tool ---- *)
\* window ids xdotool search can print
Windows == {"w1", "w2"}
\* first output line of the search that is blank after strip()
Blank == ""
WinVals == Windows \cup {Blank, None}

\* Python truth of an Optional[str]: None and '' are falsy
Truthy(w) == w # None /\ w # Blank

\* what subprocess.check_output + splitlines()[0] can do: print a window id or a
\* blank first line, exit non-zero (CalledProcessError), print nothing (IndexError)
DiscoveryOutcomes ==
  [exc : {"none"}, line : Windows \cup {Blank}] \cup
  [exc : {"CalledProcessError", "IndexError"}, line : {None}]

\* result.returncode of the injection command
ReturnCodes == {0, 1}

\* the exceptions the except clause of get_ardour_window names
CaughtM(exc) == exc \in {"CalledProcessError"}
Caught(exc) == exc \in {"CalledProcessError", "IndexError"}

(* ---- the messages of the port ---- *)
Channels == {MIDI_CHANNEL, OTHER_CHANNEL}
Controls == {TOUCHPAD_CONTROLLER, OTHER_CONTROLLER}
\* msg.value of a control_change: the samples of the spec's scenario
CcValues == {64, 70}
\* msg.pitch of a pitchwheel: samples whose differences are below, at and above
\* one pixel in both directions
PitchValues == {-20, 0, 19}

\* the messages the port delivers: notes, controller changes, pitch bends, and
\* one type the loop has no handler for
Messages ==
  [type : {"note_on", "note_off"}, channel : Channels, note : Notes,
   velocity : {0, 100}] \cup
  [type : {"control_change"}, channel : Channels, control : Controls,
   value : CcValues] \cup
  [type : {"pitchwheel"}, channel : Channels, pitch : PitchValues] \cup
  [type : {"program_change"}, channel : Channels]

\* no message taken from the port yet
NoMsg == [type |-> "none"]

NoteTypes == {"note_on", "note_off"}

\* presses and releases of the pads on the configured channel
PadMessages ==
  {m \in Messages : m.type \in NoteTypes /\ m.channel = MIDI_CHANNEL /\ m.velocity = 100}

\* what the pads send on the configured channel, a release as a note_on of
\* velocity 0 included
NoteMessages == {m \in Messages : m.type \in NoteTypes /\ m.channel = MIDI_CHANNEL}

VARIABLES
  pc,             \* pc[t]: the statement thread t is at
  note,           \* note[t]: the handler's note (main) or the repeater's note
  count,          \* count[t]: the count argument of the send_action call of t
  window,         \* window[t]: the local `window` of _run_with_window
  force_refresh,  \* force_refresh[t]: the argument of t's get_ardour_window call
  refresh,        \* refresh[t]: the loop variable of _run_with_window
  result,         \* result[t]: what _run_with_window returned ("none" while running)
  ardour_window,  \* the global window-handle cache
  held_repeaters, \* held_repeaters[n]: the slot of the registered handle, or NoThread
  stop_event,     \* stop_event[t]: the Event of the thread in slot t is set
  repeat_lock,    \* NoThread, or the thread holding the lock
  active_notes,   \* the keys of active_notes
  handle,         \* the local `handle` of stop_repeat (main thread)
  inj,            \* inj[t]: the injection calls of t's current send_action call
  outcome,        \* outcome[t]: what the discovery of t's get_ardour_window call did
  got,            \* got[t]: what t's last get_ardour_window call returned
  hist,           \* hist[t]: what thread t has done so far (see NoHist)
  starts,         \* starts[n]: start_repeat(n) calls and threads spawned since
                  \* the last stop_repeat(n)
  pads,           \* the notes the control surface sends in this run
  slots,          \* the thread slots this run may use
  tool,           \* the outcomes the window search can have in this run
  port,           \* the messages the port delivers in this run
  taken,          \* the loop variable `msg`: the message taken last from the port
  last_touchpad_cc,    \* the baseline of the vertical axis, or NoSample
  last_touchpad_pitch, \* the baseline of the horizontal axis, or NoSample
  diag,           \* the lines the loop and the handlers wrote to stderr since
                  \* the last message was taken
  motion,         \* the move_mouse call made since the last message was taken
  held_keys,      \* midi_zoom.py: the keys of held_keys
  zoom_lock,      \* midi_zoom.py: NoThread, or the thread holding its repeat_lock
  zoom_pc,        \* midi_zoom.py: the statement each of its threads is at
  zoom_note       \* midi_zoom.py: msg.note (main thread), the `note` of a
                  \* repeat_key / repeat_click thread

\* the state of midi_to_xdotool.py and of its run
xdotoolVars ==
  <<pc, note, count, window, force_refresh, refresh, result, ardour_window,
    held_repeaters, stop_event, repeat_lock, active_notes, handle, inj,
    outcome, got, hist, starts, pads, slots, tool, port, taken,
    last_touchpad_cc, last_touchpad_pitch, diag, motion>>
\* the state of midi_zoom.py
zoomVars == <<held_keys, zoom_lock, zoom_pc, zoom_note>>

vars == <<xdotoolVars, zoomVars>>

\* the locals of one send_action call
callVars == <<count, window, force_refresh, refresh, result, inj, outcome, got>>
\* the state of the repeat manager
repeatVars == <<held_repeaters, stop_event, repeat_lock, handle, starts>>
\* the environment of the run, which no step changes
envVars == <<pads, slots, tool, port>>
\* the state of the relative-motion handlers
touchVars == <<last_touchpad_cc, last_touchpad_pitch, motion>>

\* a counter of the model that stops counting at cap
Sat(c, cap) == IF c < cap THEN c + 1 ELSE cap

\* no discovery made (yet) by a get_ardour_window call
NoOutcome == [exc |-> "skipped", line |-> None]

\* what a thread has done: send_action calls made (by a repeater: in its loop; by
\* the main thread: in the current handler), those a repeater made after
\* stop_repeat returned for its handle, whether stop_repeat has returned for it,
\* whether it did so during the arming sleep, the send_action calls of the
\* handler that started the repeater, and whether the main thread's previous
\* _run_with_window call ended in "window not found"
NoHist == [ndisp |-> 0, post |-> 0, cancelled |-> FALSE, tapped |-> FALSE,
           imm |-> 0, notfound |-> FALSE]

NoStarts == [calls |-> 0, spawned |-> 0]

\* the state after the module is loaded and the port is opened, with the
\* environment of the run: the pads in use and what the window search can do
InitWith(p, k, o) ==
  /\ pads = p
  /\ slots = 1..k
  /\ tool = o
  /\ pc = [t \in Threads |-> IF t = Main THEN "loop" ELSE "idle"]
  /\ note = [t \in Threads |-> NoNote]
  /\ count = [t \in Threads |-> NoCount]
  /\ window = [t \in Threads |-> None]
  /\ force_refresh = [t \in Threads |-> FALSE]
  /\ refresh = [t \in Threads |-> FALSE]
  /\ result = [t \in Threads |-> "none"]
  /\ ardour_window = None
  /\ held_repeaters = [n \in Notes |-> NoThread]
  /\ stop_event = [t \in Slots |-> FALSE]
  /\ repeat_lock = NoThread
  /\ active_notes = {}
  /\ handle = NoThread
  /\ inj = [t \in Threads |-> <<>>]
  /\ outcome = [t \in Threads |-> NoOutcome]
  /\ got = [t \in Threads |-> None]
  /\ hist = [t \in Threads |-> NoHist]
  /\ starts = [n \in RepeatNotes |-> NoStarts]

\* no move_mouse call
NoMotion == [called |-> FALSE, dx |-> 0, dy |-> 0, ran |-> FALSE]

\* the state of the event loop after the port is opened, with the messages the
\* port delivers in this run
InitLoop(m) ==
  /\ port = m
  /\ taken = NoMsg
  /\ last_touchpad_cc = NoSample
  /\ last_touchpad_pitch = NoSample
  /\ diag = <<>>
  /\ motion = NoMotion

(* ---- get_ardour_window (lines 106-124) ---- *)

\* `if force_refresh: ardour_window = None`
GwForce(t) ==
  /\ pc[t] = "gw_force"
  /\ ardour_window' = None
  /\ pc' = [pc EXCEPT ![t] = "gw_check"]
  /\ UNCHANGED <<note, callVars, repeatVars, active_notes, hist>>

\* the test of `if ardour_window:`
CacheHitM(w) == w # None
CacheHit(w) == Truthy(w)

\* `if ardour_window:` reads the cache; a hit goes to the return of line 114, a
\* miss to the discovery
GwCheck(t) ==
  /\ pc[t] = "gw_check"
  /\ pc' = [pc EXCEPT ![t] = IF CacheHit(ardour_window) THEN "gw_hit" ELSE "gw_discover"]
  /\ UNCHANGED <<note, callVars, ardour_window, repeatVars, active_notes, hist>>

\* the try block: the search runs and its first line is stored in the cache; an
\* exception the except clause names stores None; any other exception leaves
\* the function and ends the thread
GwDiscover(t) ==
  /\ pc[t] = "gw_discover"
  /\ \E o \in tool :
       /\ outcome' = [outcome EXCEPT ![t] = o]
       /\ IF o.exc = "none"
            THEN /\ ardour_window' = o.line
                 /\ pc' = [pc EXCEPT ![t] = "gw_ret"]
            ELSE IF Caught(o.exc)
            THEN /\ ardour_window' = None
                 /\ pc' = [pc EXCEPT ![t] = "gw_ret"]
            ELSE /\ ardour_window' = ardour_window
                 /\ pc' = [pc EXCEPT ![t] = "crashed"]
  /\ UNCHANGED <<note, count, window, force_refresh, refresh, result, inj, got,
                 repeatVars, active_notes, hist>>

(* ---- _run_with_window (lines 126-147) ---- *)

\* `window = get_ardour_window(...)`: the local after the call returned `new`
AssignWindowM(old, new, forced) == IF forced THEN old ELSE new
AssignWindow(old, new, forced) == new

\* `return ardour_window` reads the cache again and hands the value to
\* _run_with_window, which tests `if not window` (line 129 after the first call,
\* line 143 after the forced one): absent ends the call with False, a window
\* goes to the injection, with refresh set for the second pass of the loop
GwReturn(t) ==
  LET w == AssignWindow(window[t], ardour_window, force_refresh[t]) IN
  /\ got' = [got EXCEPT ![t] = ardour_window]
  /\ window' = [window EXCEPT ![t] = w]
  /\ IF Truthy(w)
       THEN /\ pc' = [pc EXCEPT ![t] = "inject"]
            /\ refresh' = [refresh EXCEPT ![t] = force_refresh[t]]
            /\ result' = result
       ELSE /\ pc' = [pc EXCEPT ![t] = "sa_ret"]
            /\ refresh' = refresh
            /\ result' = [result EXCEPT ![t] = "false"]
  /\ UNCHANGED <<note, count, force_refresh, inj, outcome, ardour_window,
                 repeatVars, active_notes, hist>>

\* the return of line 114 (cache hit)
GwHit(t) == pc[t] = "gw_hit" /\ GwReturn(t)

\* the return of line 124 (after discovery)
GwRet(t) == pc[t] = "gw_ret" /\ GwReturn(t)

\* `if refresh: break` after a failed injection: the second failure is the last
GiveUpM(r) == FALSE
GiveUp(r) == r

\* `if result.returncode == 0: return True`
SucceededM(rc) == FALSE
Succeeded(rc) == rc = 0

\* `repetitions = count or action.immediate_count` (send_action, line 190)
RepetitionsM(action, cnt) == action.immediate_count
RepetitionsH(action, cnt) == IF cnt # NoCount THEN cnt ELSE action.hold_repeat_count
Repetitions(action, cnt) == IF cnt # NoCount THEN cnt ELSE action.immediate_count

\* one pass of the loop: build the command for `window`, run it, and return True
\* on status 0; on failure give up in the second pass, else call
\* get_ardour_window(force_refresh=True)
Inject(t) ==
  /\ pc[t] = "inject"
  /\ \E rc \in ReturnCodes :
       /\ inj' = [inj EXCEPT ![t] = Append(@,
             [window |-> window[t], rc |-> rc,
              count |-> Repetitions(NOTE_ACTIONS[note[t]], count[t])])]
       /\ IF Succeeded(rc)
            THEN /\ result' = [result EXCEPT ![t] = "true"]
                 /\ pc' = [pc EXCEPT ![t] = "sa_ret"]
                 /\ force_refresh' = force_refresh
            ELSE IF GiveUp(refresh[t])
            THEN /\ result' = [result EXCEPT ![t] = "false"]
                 /\ pc' = [pc EXCEPT ![t] = "sa_ret"]
                 /\ force_refresh' = force_refresh
            ELSE /\ result' = result
                 /\ pc' = [pc EXCEPT ![t] = "gw_force"]
                 /\ force_refresh' = [force_refresh EXCEPT ![t] = TRUE]
  /\ outcome' = [outcome EXCEPT ![t] = NoOutcome]
  /\ UNCHANGED <<note, count, window, refresh, got, ardour_window,
                 repeatVars, active_notes, hist>>

(* ---- send_action (lines 188-196), send_key, click_mouse ---- *)

\* the call send_action(action, count): every action of the table is of kind
\* 'key' or 'mouse', so it enters _run_with_window, whose first statement is the
\* non-forced get_ardour_window()
SendAction(t) ==
  /\ pc[t] = "send_action"
  /\ pc' = [pc EXCEPT ![t] = "gw_check"]
  /\ force_refresh' = [force_refresh EXCEPT ![t] = FALSE]
  /\ hist' = [hist EXCEPT ![t].ndisp = Sat(@, MaxCount),
                          ![t].post = IF hist[t].cancelled THEN Sat(@, MaxCount + 1) ELSE @]
  /\ UNCHANGED <<note, count, window, refresh, result, inj, outcome, got,
                 ardour_window, repeatVars, active_notes>>

\* send_action returns: to handle_note_on, which calls start_repeat next (line
\* 258), or to the repeater, which sleeps REPEAT_INTERVAL next (line 214)
SaRet(t) ==
  /\ pc[t] = "sa_ret"
  /\ pc' = [pc EXCEPT ![t] = IF t = Main THEN "start_repeat" ELSE "interval"]
  /\ hist' = [hist EXCEPT ![t].notfound = (t = Main /\ result[t] = "false" /\ inj[t] = <<>>)]
  /\ count' = [count EXCEPT ![t] = NoCount]
  /\ window' = [window EXCEPT ![t] = None]
  /\ force_refresh' = [force_refresh EXCEPT ![t] = FALSE]
  /\ refresh' = [refresh EXCEPT ![t] = FALSE]
  /\ result' = [result EXCEPT ![t] = "none"]
  /\ inj' = [inj EXCEPT ![t] = <<>>]
  /\ outcome' = [outcome EXCEPT ![t] = NoOutcome]
  /\ got' = [got EXCEPT ![t] = None]
  /\ UNCHANGED <<note, ardour_window, repeatVars, active_notes>>

(* ---- the repeater thread (lines 210-214) ---- *)

\* time.sleep(REPEAT_DELAY) returns
Arming(t) ==
  /\ pc[t] = "arming"
  /\ pc' = [pc EXCEPT ![t] = "check"]
  /\ UNCHANGED <<note, callVars, ardour_window, repeatVars, active_notes, hist>>

\* the loop condition `not stop_event.is_set()`
KeepsRunningM(t) == TRUE
KeepsRunning(t) == ~stop_event[t]

\* `while not stop_event.is_set()`: the thread ends when the event is set,
\* else it is about to call send_action(action, action.hold_repeat_count)
Check(t) ==
  /\ pc[t] = "check"
  /\ IF KeepsRunning(t)
       THEN /\ pc' = [pc EXCEPT ![t] = "send_action"]
            /\ count' = [count EXCEPT ![t] = NOTE_ACTIONS[note[t]].hold_repeat_count]
            /\ UNCHANGED <<note, stop_event, hist>>
       ELSE /\ pc' = [pc EXCEPT ![t] = "idle"]
            /\ note' = [note EXCEPT ![t] = NoNote]
            /\ stop_event' = [stop_event EXCEPT ![t] = FALSE]
            /\ hist' = [hist EXCEPT ![t] = NoHist]
            /\ count' = count
  /\ UNCHANGED <<window, force_refresh, refresh, result, inj, outcome, got,
                 ardour_window, held_repeaters, repeat_lock, handle, starts,
                 active_notes>>

\* time.sleep(REPEAT_INTERVAL) returns
Interval(t) ==
  /\ pc[t] = "interval"
  /\ pc' = [pc EXCEPT ![t] = "check"]
  /\ UNCHANGED <<note, callVars, ardour_window, repeatVars, active_notes, hist>>

(* ---- start_repeat (lines 198-218) ---- *)

\* thread.is_alive(): started and not yet ended
IsAlive(s) == pc[s] \notin {"idle", "crashed"}

\* `existing and existing.thread.is_alive()`
AlreadyRunningM(n) == FALSE
AlreadyRunning(n) == held_repeaters[n] # NoThread /\ IsAlive(held_repeaters[n])

\* the slot a new Thread object gets: the lowest one without a live thread
FreeSlot == CHOOSE s \in Slots : pc[s] = "idle" /\ \A r \in Slots : pc[r] = "idle" => s <= r

\* `if not action.hold_repeat_count: return`, else `with repeat_lock:` is entered
StartRepeat ==
  /\ pc[Main] = "start_repeat"
  /\ IF NOTE_ACTIONS[note[Main]].hold_repeat_count = NoCount
       THEN /\ pc' = [pc EXCEPT ![Main] = "loop"]
            /\ note' = [note EXCEPT ![Main] = NoNote]
            /\ repeat_lock' = repeat_lock
       ELSE /\ repeat_lock = NoThread
            /\ repeat_lock' = Main
            /\ pc' = [pc EXCEPT ![Main] = "sr_body"]
            /\ note' = note
  /\ UNCHANGED <<callVars, ardour_window, held_repeaters, stop_event, handle,
                 starts, active_notes, hist>>

\* the body under the lock: return if the note has a live repeater, else make
\* the stop event and the thread, register the handle and start the thread,
\* which begins in time.sleep(REPEAT_DELAY); leaving the block frees the lock
SrBody ==
  LET n == note[Main] IN
  /\ pc[Main] = "sr_body"
  /\ IF AlreadyRunning(n)
       THEN /\ pc' = [pc EXCEPT ![Main] = "loop"]
            /\ note' = [note EXCEPT ![Main] = NoNote]
            /\ starts' = [starts EXCEPT ![n].calls = Sat(@, 2)]
            /\ UNCHANGED <<held_repeaters, stop_event, hist>>
       ELSE /\ \E s \in Slots : pc[s] = "idle"
            /\ pc' = [pc EXCEPT ![Main] = "loop", ![FreeSlot] = "arming"]
            /\ note' = [note EXCEPT ![Main] = NoNote, ![FreeSlot] = n]
            /\ stop_event' = [stop_event EXCEPT ![FreeSlot] = FALSE]
            /\ held_repeaters' = [held_repeaters EXCEPT ![n] = FreeSlot]
            /\ hist' = [hist EXCEPT ![FreeSlot] = [NoHist EXCEPT !.imm = hist[Main].ndisp]]
            /\ starts' = [starts EXCEPT ![n].calls = Sat(@, 2), ![n].spawned = Sat(@, 2)]
  /\ repeat_lock' = NoThread
  /\ UNCHANGED <<callVars, ardour_window, handle, active_notes>>

(* ---- stop_repeat (lines 220-226) ---- *)

\* `with repeat_lock:` is entered
StopRepeat ==
  /\ pc[Main] = "stop_repeat"
  /\ repeat_lock = NoThread
  /\ repeat_lock' = Main
  /\ pc' = [pc EXCEPT ![Main] = "stop_pop"]
  /\ UNCHANGED <<note, callVars, ardour_window, held_repeaters, stop_event,
                 handle, starts, active_notes, hist>>

\* `handle = held_repeaters.pop(note, None)`, and the lock is freed
StopPopM ==
  /\ pc[Main] = "stop_pop"
  /\ handle' = held_repeaters[note[Main]]
  /\ held_repeaters' = held_repeaters
  /\ repeat_lock' = NoThread
  /\ pc' = [pc EXCEPT ![Main] = "stop_set"]
  /\ UNCHANGED <<note, callVars, ardour_window, stop_event, starts,
                 active_notes, hist>>
StopPop ==
  /\ pc[Main] = "stop_pop"
  /\ handle' = held_repeaters[note[Main]]
  /\ held_repeaters' = [held_repeaters EXCEPT ![note[Main]] = NoThread]
  /\ repeat_lock' = NoThread
  /\ pc' = [pc EXCEPT ![Main] = "stop_set"]
  /\ UNCHANGED <<note, callVars, ardour_window, stop_event, starts,
                 active_notes, hist>>

\* `handle.stop_event.set()`
SetEventM(ev, h) == ev
SetEvent(ev, h) == [ev EXCEPT ![h] = TRUE]

\* `if handle: handle.stop_event.set()`, else the debug line; stop_repeat and
\* handle_note_off return to the loop
StopSet ==
  LET n == note[Main] IN
  /\ pc[Main] = "stop_set"
  /\ IF handle # NoThread
       THEN /\ stop_event' = SetEvent(stop_event, handle)
            /\ hist' = [hist EXCEPT ![handle].cancelled = TRUE,
                                    ![handle].tapped = (pc[handle] = "arming")]
            /\ diag' = diag
       ELSE /\ diag' = diag \o debug("no repeater active")
            /\ UNCHANGED <<stop_event, hist>>
  /\ starts' = IF n \in RepeatNotes THEN [starts EXCEPT ![n] = NoStarts] ELSE starts
  /\ handle' = NoThread
  /\ pc' = [pc EXCEPT ![Main] = "loop"]
  /\ note' = [note EXCEPT ![Main] = NoNote]
  /\ UNCHANGED <<callVars, ardour_window, held_repeaters, repeat_lock, active_notes>>

(* ---- the handlers and the event loop (lines 228-285) ---- *)

\* move_mouse(dx, dy): returns at once when both are 0, else runs xdotool
move_mouse(dx, dy) ==
  [called |-> TRUE, dx |-> dx, dy |-> dy, ran |-> ~(dx = 0 /\ dy = 0)]

\* `if delta == 0: return`, else the move_mouse call of the handler
Sample(delta, moved) == IF delta = 0 THEN NoMotion ELSE moved

\* handle_touchpad_vertical(value): the first sample is stored and nothing else
\* happens; a later one is stored and its difference is scaled
handle_touchpad_vertical(value) ==
  /\ last_touchpad_cc' = value
  /\ motion' = IF last_touchpad_cc = NoSample THEN NoMotion
               ELSE LET delta == value - last_touchpad_cc IN
                    Sample(delta, move_mouse(0, int(delta * TOUCHPAD_Y_SENSITIVITY, 1)))
  /\ diag' = <<>>
  /\ UNCHANGED <<last_touchpad_pitch, pc, note, callVars, ardour_window, repeatVars,
                 active_notes, hist>>

\* handle_touchpad_horizontal(pitch_value)
handle_touchpad_horizontal(pitch_value) ==
  /\ last_touchpad_pitch' = pitch_value
  /\ motion' = IF last_touchpad_pitch = NoSample THEN NoMotion
               ELSE LET delta == pitch_value - last_touchpad_pitch IN
                    Sample(delta,
                           move_mouse(int(delta * TOUCHPAD_X_SENSITIVITY.num,
                                          TOUCHPAD_X_SENSITIVITY.den), 0))
  /\ diag' = <<>>
  /\ UNCHANGED <<last_touchpad_cc, pc, note, callVars, ardour_window, repeatVars,
                 active_notes, hist>>

\* handle_note_on up to the call of send_action(action): the note is recorded;
\* an unmapped note prints the Info line and returns
handle_note_on(n) ==
  /\ active_notes' = active_notes \cup {n}
  /\ hist' = [hist EXCEPT ![Main].ndisp = 0]
  /\ IF n \notin DOMAIN NOTE_ACTIONS
       THEN /\ diag' = debug("note on") \o <<"Info: Unmapped note_on">>
            /\ UNCHANGED <<pc, note, count>>
       ELSE /\ diag' = debug("note on")
            /\ pc' = [pc EXCEPT ![Main] = "send_action"]
            /\ note' = [note EXCEPT ![Main] = n]
            /\ count' = [count EXCEPT ![Main] = NoCount]
  /\ UNCHANGED <<window, force_refresh, refresh, result, inj, outcome, got,
                 ardour_window, repeatVars, touchVars>>

\* handle_note_off up to the call of stop_repeat(note)
handle_note_off(n) ==
  /\ active_notes' = active_notes \ {n}
  /\ diag' = debug(IF n \in active_notes THEN "note off" ELSE "note off (no matching active note)")
  /\ hist' = [hist EXCEPT ![Main].ndisp = 0]
  /\ pc' = [pc EXCEPT ![Main] = "stop_repeat"]
  /\ note' = [note EXCEPT ![Main] = n]
  /\ UNCHANGED <<callVars, ardour_window, repeatVars, touchVars>>

\* the branch of the loop body a message of the configured channel takes
\* (lines 273-285)
HandlerM(m) ==
  IF m.type = "note_on" THEN "handle_note_on"
  ELSE IF m.type = "note_off" THEN "handle_note_off"
  ELSE "unsupported"
Handler(m) ==
  IF m.type = "note_on"
    THEN (IF m.velocity = 0 THEN "handle_note_off" ELSE "handle_note_on")
  ELSE IF m.type = "note_off" THEN "handle_note_off"
  ELSE IF m.type = "control_change" /\ m.control = TOUCHPAD_CONTROLLER
    THEN "handle_touchpad_vertical"
  ELSE IF m.type = "pitchwheel" THEN "handle_touchpad_horizontal"
  ELSE "unsupported"

\* `if msg.channel != MIDI_CHANNEL: continue`
FilteredM(m) == FALSE
Filtered(m) == m.channel # MIDI_CHANNEL

\* one pass of `for msg in inport`.  The run takes a press of a repeatable note
\* only while one of its thread slots is free.
EventLoop(msg) ==
  /\ pc[Main] = "loop"
  /\ msg \in port
  /\ msg.type \in NoteTypes => msg.note \in pads
  /\ taken' = msg
  /\ \/ /\ Filtered(msg)
        /\ diag' = <<>>
        /\ motion' = NoMotion
        /\ UNCHANGED <<pc, note, callVars, ardour_window, repeatVars, active_notes,
                       hist, last_touchpad_cc, last_touchpad_pitch>>
     \/ /\ ~Filtered(msg)
        /\ Handler(msg) = "handle_note_off"
        /\ handle_note_off(msg.note)
     \/ /\ ~Filtered(msg)
        /\ Handler(msg) = "handle_note_on"
        /\ msg.note \in RepeatNotes => \E s \in slots : pc[s] = "idle"
        /\ handle_note_on(msg.note)
     \/ /\ ~Filtered(msg)
        /\ Handler(msg) = "handle_touchpad_vertical"
        /\ handle_touchpad_vertical(msg.value)
     \/ /\ ~Filtered(msg)
        /\ Handler(msg) = "handle_touchpad_horizontal"
        /\ handle_touchpad_horizontal(msg.pitch)
     \/ /\ ~Filtered(msg)
        /\ Handler(msg) = "unsupported"
        /\ diag' = <<"Info: Unsupported MIDI message type">>
        /\ motion' = NoMotion
        /\ UNCHANGED <<pc, note, callVars, ardour_window, repeatVars, active_notes,
                       hist, last_touchpad_cc, last_touchpad_pitch>>
  /\ UNCHANGED <<pads, slots, tool, port>>
  /\ UNCHANGED zoomVars

(* ---- midi_zoom.py, the earlier variant ---- *)

\* the state of midi_zoom.py after the port is opened
InitZoom ==
  /\ held_keys = {}
  /\ zoom_lock = NoThread
  /\ zoom_pc = [t \in Threads |-> IF t = Main THEN "loop" ELSE "idle"]
  /\ zoom_note = [t \in Threads |-> NoNote]

\* the slot a new Thread object gets: the lowest one without a live thread
ZoomFreeSlot ==
  CHOOSE s \in Slots : zoom_pc[s] = "idle" /\ \A r \in Slots : zoom_pc[r] = "idle" => s <= r

\* note_on of a pad with a repeat thread (lines 123-162): the immediate
\* press_key / click_mouse call.  The run takes the press of a pad that is not
\* in held_keys only while a thread slot is free.
ZoomNoteOn(n) ==
  /\ zoom_pc[Main] = "loop"
  /\ n \in pads /\ n \in RepeatNotes
  /\ n \notin held_keys => \E s \in slots : zoom_pc[s] = "idle"
  /\ zoom_pc' = [zoom_pc EXCEPT ![Main] = "register"]
  /\ zoom_note' = [zoom_note EXCEPT ![Main] = n]
  /\ UNCHANGED <<held_keys, zoom_lock, xdotoolVars>>

\* `if msg.note not in held_keys:` make the thread, put it into held_keys and
\* start it; it begins in time.sleep(REPEAT_DELAY)
ZoomRegister ==
  LET n == zoom_note[Main] IN
  /\ zoom_pc[Main] = "register"
  /\ IF n \notin held_keys
       THEN /\ held_keys' = held_keys \cup {n}
            /\ zoom_pc' = [zoom_pc EXCEPT ![Main] = "loop", ![ZoomFreeSlot] = "delay"]
            /\ zoom_note' = [zoom_note EXCEPT ![Main] = NoNote, ![ZoomFreeSlot] = n]
       ELSE /\ held_keys' = held_keys
            /\ zoom_pc' = [zoom_pc EXCEPT ![Main] = "loop"]
            /\ zoom_note' = [zoom_note EXCEPT ![Main] = NoNote]
  /\ UNCHANGED <<zoom_lock, xdotoolVars>>

\* note_off (lines 167-169): `with repeat_lock:` is entered
ZoomNoteOff(n) ==
  /\ zoom_pc[Main] = "loop"
  /\ n \in pads
  /\ zoom_lock = NoThread
  /\ zoom_lock' = Main
  /\ zoom_pc' = [zoom_pc EXCEPT ![Main] = "note_off"]
  /\ zoom_note' = [zoom_note EXCEPT ![Main] = n]
  /\ UNCHANGED <<held_keys, xdotoolVars>>

\* `if msg.note in held_keys: del held_keys[msg.note]`, and the lock is freed
ZoomDelete ==
  /\ zoom_pc[Main] = "note_off"
  /\ held_keys' = held_keys \ {zoom_note[Main]}
  /\ zoom_lock' = NoThread
  /\ zoom_pc' = [zoom_pc EXCEPT ![Main] = "loop"]
  /\ zoom_note' = [zoom_note EXCEPT ![Main] = NoNote]
  /\ UNCHANGED xdotoolVars

\* repeat_key / repeat_click: time.sleep(REPEAT_DELAY) returns
ZoomDelay(t) ==
  /\ zoom_pc[t] = "delay"
  /\ zoom_pc' = [zoom_pc EXCEPT ![t] = "first_lock"]
  /\ UNCHANGED <<held_keys, zoom_lock, zoom_note, xdotoolVars>>

\* `with repeat_lock:` is entered, before the loop (line 90) or in it (line 95)
ZoomLock(t) ==
  /\ zoom_pc[t] \in {"first_lock", "loop_lock"}
  /\ zoom_lock = NoThread
  /\ zoom_lock' = t
  /\ zoom_pc' = [zoom_pc EXCEPT ![t] = IF zoom_pc[t] = "first_lock" THEN "first_check" ELSE "loop_check"]
  /\ UNCHANGED <<held_keys, zoom_note, xdotoolVars>>

\* `if note not in held_keys: return` (lines 91-92) and `if note not in
\* held_keys: break` (lines 96-97): the thread ends, or goes on to the loop /
\* to press_key; the lock is freed
ZoomCheck(t) ==
  /\ zoom_pc[t] \in {"first_check", "loop_check"}
  /\ zoom_lock' = NoThread
  /\ IF zoom_note[t] \notin held_keys
       THEN /\ zoom_pc' = [zoom_pc EXCEPT ![t] = "idle"]
            /\ zoom_note' = [zoom_note EXCEPT ![t] = NoNote]
       ELSE /\ zoom_pc' = [zoom_pc EXCEPT ![t] = IF zoom_pc[t] = "first_check" THEN "loop_lock" ELSE "press_key"]
            /\ zoom_note' = zoom_note
  /\ UNCHANGED <<held_keys, xdotoolVars>>

\* press_key(key, repeat_count) / click_mouse(button, repeat_count)
ZoomPress(t) ==
  /\ zoom_pc[t] = "press_key"
  /\ zoom_pc' = [zoom_pc EXCEPT ![t] = "interval"]
  /\ UNCHANGED <<held_keys, zoom_lock, zoom_note, xdotoolVars>>

\* time.sleep(REPEAT_INTERVAL) returns
ZoomInterval(t) ==
  /\ zoom_pc[t] = "interval"
  /\ zoom_pc' = [zoom_pc EXCEPT ![t] = "loop_lock"]
  /\ UNCHANGED <<held_keys, zoom_lock, zoom_note, xdotoolVars>>

ZoomNext ==
  \/ \E n \in Notes : ZoomNoteOn(n)
  \/ ZoomRegister
  \/ \E n \in Notes : ZoomNoteOff(n)
  \/ ZoomDelete
  \/ \E t \in Slots : ZoomDelay(t)
  \/ \E t \in Slots : ZoomLock(t)
  \/ \E t \in Slots : ZoomCheck(t)
  \/ \E t \in Slots : ZoomPress(t)
  \/ \E t \in Slots : ZoomInterval(t)

(* ---- the program ---- *)

\* a step of the code that thread t runs inside send_action
CallStep(t) ==
  \/ SendAction(t)
  \/ GwForce(t)
  \/ GwCheck(t)
  \/ GwDiscover(t)
  \/ GwHit(t)
  \/ GwRet(t)
  \/ Inject(t)
  \/ SaRet(t)

\* a step of the repeater thread in slot t
RepeaterStep(t) ==
  /\ \/ Arming(t)
     \/ Check(t)
     \/ Interval(t)
     \/ CallStep(t)
  /\ UNCHANGED <<envVars, taken, touchVars, diag, zoomVars>>

\* a step of the main thread inside a handler
MainStep ==
  /\ \/ CallStep(Main) /\ diag' = diag
     \/ StartRepeat /\ diag' = diag
     \/ SrBody /\ diag' = diag
     \/ StopRepeat /\ diag' = diag
     \/ StopPop /\ diag' = diag
     \/ StopSet
  /\ UNCHANGED <<envVars, taken, touchVars, zoomVars>>

Next ==
  \/ \E msg \in port : EventLoop(msg)
  \/ MainStep
  \/ \E t \in Slots : RepeaterStep(t)

\* the window search finds the one window, exits non-zero or prints nothing
OneWindow == {o \in DiscoveryOutcomes : o.line \in {"w1", None}}

\* the repeat manager at work: one repeatable pad, pressed and released in any
\* order, with MaxThreads repeater threads at most
Init == InitWith({NOTE_ARROW_RIGHT}, MaxThreads, OneWindow) /\ InitLoop(PadMessages) /\ InitZoom

Spec == Init /\ [][Next]_vars

\* the dispatcher at work: the same pad and threads, and a window search that
\* can do all it can do
InitDeliver ==
  InitWith({NOTE_ARROW_LEFT}, MaxThreads, DiscoveryOutcomes) /\ InitLoop(PadMessages) /\ InitZoom

DeliverSpec == InitDeliver /\ [][Next]_vars

\* the scheduler runs every thread that can take a step; the port is free to
\* deliver no further message
FairSpec ==
  /\ Spec
  /\ WF_vars(MainStep)
  /\ \A t \in Slots : WF_vars(RepeaterStep(t))

\* the window search finds the one window
Found == {o \in DiscoveryOutcomes : o.line = "w1"}

\* the pads at work: a pad that never repeats, one that repeats and one without
\* an action, released by note_off or by a note_on of velocity 0
InitPads ==
  /\ InitWith({NOTE_ZOOM_IN, NOTE_ARROW_RIGHT, NOTE_UNMAPPED}, 1, Found)
  /\ InitLoop(NoteMessages) /\ InitZoom

PadsSpec == InitPads /\ [][Next]_vars

\* presses at work: a pad that never repeats and one that repeats with a count
\* of its own, pressed and released in any order
InitPress ==
  /\ InitWith({NOTE_ZOOM_IN, NOTE_ARROW_RIGHT}, MaxThreads, Found)
  /\ InitLoop(PadMessages) /\ InitZoom

PressSpec == InitPress /\ [][Next]_vars

\* every message the surface can send, on either channel; pads are released
\* by note_off
AllMessages == {m \in Messages : m.type \in NoteTypes => m.velocity = 100}

\* the touchpad at work, next to one repeatable pad, with messages on the
\* configured channel and on another one
InitTouch == InitWith({NOTE_ARROW_LEFT}, 1, Found) /\ InitLoop(AllMessages) /\ InitZoom

TouchSpec == InitTouch /\ [][Next]_vars

\* midi_zoom.py at work: the two arrow pads, pressed and released in any order
InitZoomRun ==
  /\ InitWith({NOTE_ARROW_LEFT, NOTE_ARROW_RIGHT}, MaxThreads, Found)
  /\ InitLoop({})
  /\ InitZoom

ZoomSpec == InitZoomRun /\ [][ZoomNext]_vars

TypeOK ==
  /\ pc \in [Threads -> {"loop", "idle", "crashed", "arming", "check", "interval",
        "send_action", "gw_force", "gw_check", "gw_discover", "gw_hit", "gw_ret",
        "inject", "sa_ret", "start_repeat", "sr_body", "stop_repeat", "stop_pop",
        "stop_set"}]
  /\ ardour_window \in WinVals
  /\ window \in [Threads -> WinVals]
  /\ held_repeaters \in [Notes -> Slots \cup {NoThread}]
  /\ repeat_lock \in Threads \cup {NoThread}
  /\ active_notes \subseteq Notes
  /\ taken \in Messages \cup {NoMsg}
  /\ last_touchpad_cc \in CcValues \cup {NoSample}
  /\ last_touchpad_pitch \in PitchValues \cup {NoSample}
  /\ Len(diag) <= 2
  /\ held_keys \subseteq Notes
  /\ zoom_lock \in Threads \cup {NoThread}
  /\ zoom_note \in [Threads -> Notes \cup {NoNote}]

(* ---- the claims ---- *)

\* the repeater threads of note n that have been started and have not ended
LiveTasks(n) == {t \in Slots : IsAlive(t) /\ note[t] = n}

\* C1: at most one live repeat task (a started repeater thread that has not yet
\* exited) exists per note at any time, also when the note is released and
\* pressed again before the thread of the earlier press has ended
C1_OneLiveTaskPerNote == \A n \in Notes : Cardinality(LiveTasks(n)) <= 1

\* C2: of the start_repeat calls made for a repeatable note since the last
\* stop_repeat of that note, exactly one started a thread; a call that is not
\* the first of them starts no thread and leaves the registry entry and the
\* stop event of the first as they are
C2_SecondCallIsNoOp ==
  (pc[Main] = "sr_body" /\ pc'[Main] # "sr_body" /\ starts[note[Main]].calls >= 1)
    => /\ held_repeaters' = held_repeaters
       /\ stop_event' = stop_event
       /\ \A s \in Slots : IsAlive(s)' = IsAlive(s)
C2_StartRepeatIdempotent ==
  /\ [](\A n \in RepeatNotes : starts[n].calls >= 1 => starts[n].spawned = 1)
  /\ [][C2_SecondCallIsNoOp]_vars
C2_Witness ==
  /\ pc[Main] = "loop"
  /\ \E n \in RepeatNotes : starts[n].calls = 2 /\ starts[n].spawned = 1

\* C3: a repeater whose handle stop_repeat has removed and signalled calls
\* send_action at most once after stop_repeat returned
C3_AtMostOneDispatchAfterStop == \A t \in Slots : hist[t].post <= 1
C3_Witness == \E t \in Slots : hist[t].cancelled /\ hist[t].post = 1 /\ pc[t] = "check"

\* C5: a repeater whose stop_repeat returned while it was in the arming sleep
\* never calls send_action, so the press that started it caused the one
\* immediate dispatch of handle_note_on and no other
C5_TapDoesNotDoubleFire ==
  \A t \in Slots : hist[t].tapped =>
    /\ hist[t].ndisp = 0
    /\ hist[t].imm = 1
    /\ pc[t] \in {"arming", "check"}
C5_Witness == \E t \in Slots : hist[t].tapped /\ pc[t] = "check"

\* C6: a send_action call never makes a third injection call, and one whose
\* two injection calls both failed has returned failure
C6_GivesUpAfterTwo ==
  \A t \in Threads :
    /\ Len(inj[t]) <= 2
    /\ (pc[t] = "sa_ret" /\ Len(inj[t]) = 2 /\ inj[t][2].rc # 0)
         => (inj[t][1].rc # 0 /\ result[t] = "false")
    /\ (pc[t] = "inject" /\ inj[t] # <<>>)
         => (Len(inj[t]) = 1 /\ inj[t][1].rc # 0 /\ refresh[t])
C6_Witness ==
  \E t \in Threads :
    /\ pc[t] = "sa_ret" /\ result[t] = "false"
    /\ Len(inj[t]) = 2 /\ inj[t][1].rc # 0 /\ inj[t][2].rc # 0

\* C7: a call whose first injection failed has called
\* get_ardour_window(force_refresh=True), which clears the cache; if that
\* returned a window, the call made exactly one more injection, at the window
\* returned, and returned success if that one succeeded; if it returned absent,
\* the call made no further injection and returned failure
C7_AfterFirstFailure(t) ==
  (pc[t] = "sa_ret" /\ inj[t] # <<>> /\ inj[t][1].rc # 0) =>
    /\ force_refresh[t]
    /\ IF Truthy(got[t])
         THEN /\ Len(inj[t]) = 2
              /\ inj[t][2].window = got[t]
              /\ result[t] = (IF inj[t][2].rc = 0 THEN "true" ELSE "false")
         ELSE /\ Len(inj[t]) = 1
              /\ result[t] = "false"
C7_ForceClears ==
  \A t \in Threads : (pc[t] = "gw_force" /\ pc'[t] # "gw_force") => ardour_window' = None
C7_RetryOnceOnNewWindow ==
  /\ [](\A t \in Threads : C7_AfterFirstFailure(t))
  /\ [][C7_ForceClears]_vars
C7_Witness ==
  \E t \in Threads :
    /\ pc[t] = "sa_ret" /\ result[t] = "true"
    /\ Len(inj[t]) = 2 /\ inj[t][1].window # inj[t][2].window

\* the first, non-forced get_ardour_window() of the call of t returned absent
FirstResolutionAbsent(t) == pc[t] = "sa_ret" /\ ~force_refresh[t] /\ ~Truthy(got[t])

\* C8 as stated: a call whose window locator fails the first resolution makes
\* exactly two injection calls and returns success
C8_AsStated ==
  \A t \in Threads : FirstResolutionAbsent(t) => (Len(inj[t]) = 2 /\ result[t] = "true")

\* C8 amended: a call whose first resolution yields a window, whose first
\* injection fails and whose forced resolution yields a window makes exactly
\* two injection calls, and returns success when the second succeeds; a call
\* whose first resolution yields absent makes none and returns failure
C8_TwoInjectionsAfterInjectionFailure ==
  \A t \in Threads :
    /\ (pc[t] = "sa_ret" /\ inj[t] # <<>> /\ inj[t][1].rc # 0 /\ Truthy(got[t]))
         => Len(inj[t]) = 2
    /\ (pc[t] = "sa_ret" /\ Len(inj[t]) = 2 /\ inj[t][2].rc = 0) => result[t] = "true"
    /\ FirstResolutionAbsent(t) => (inj[t] = <<>> /\ result[t] = "false")
C8_Witness ==
  \E t \in Threads :
    /\ pc[t] = "sa_ret" /\ result[t] = "true"
    /\ Len(inj[t]) = 2 /\ inj[t][1].rc # 0 /\ inj[t][2].rc = 0

\* C9: a call whose first resolution yields absent returns failure without an
\* injection call; nothing of that failure is kept: a get_ardour_window call
\* that finds the cache absent runs the discovery, and a call whose first
\* resolution yields a window goes on to inject at that window
C9_AbsentCacheIsSearched ==
  \A t \in Threads :
    (pc[t] = "gw_check" /\ pc'[t] # "gw_check" /\ ~Truthy(ardour_window))
      => pc'[t] = "gw_discover"
C9_FoundIsDelivered ==
  \A t \in Threads :
    (pc[t] \in {"gw_hit", "gw_ret"} /\ pc'[t] # pc[t] /\ ~force_refresh[t]
       /\ Truthy(ardour_window))
      => (pc'[t] = "inject" /\ window'[t] = ardour_window /\ inj'[t] = <<>>)
C9_NotFoundIsRecoverable ==
  /\ [](\A t \in Threads : FirstResolutionAbsent(t) => (inj[t] = <<>> /\ result[t] = "false"))
  /\ [][C9_AbsentCacheIsSearched]_vars
  /\ [][C9_FoundIsDelivered]_vars
\* the main thread's previous call ended in "window not found" and this one
\* delivered
C9_Witness ==
  /\ hist[Main].notfound
  /\ pc[Main] = "sa_ret" /\ result[Main] = "true" /\ Len(inj[Main]) = 1

\* C4: every injection of a repeater carries the hold_repeat_count of its
\* action; a repeater whose handle stays registered (the note stays unreleased)
\* calls send_action with that count again and again; a repeater whose handle
\* stop_repeat has removed and signalled ends
C4_RepeatCount ==
  \A t \in Slots : \A i \in 1..Len(inj[t]) :
    inj[t][i].count = NOTE_ACTIONS[note[t]].hold_repeat_count
C4_Dispatching(t) ==
  pc[t] = "send_action" /\ count[t] = NOTE_ACTIONS[note[t]].hold_repeat_count
C4_HoldRepeatsUntilRelease ==
  /\ []C4_RepeatCount
  /\ \A t \in Slots : \A n \in RepeatNotes :
       <>[](held_repeaters[n] = t) => []<>C4_Dispatching(t)
  /\ \A t \in Slots : hist[t].cancelled ~> (pc[t] = "idle")
\* a registered repeater about to dispatch again
C4_Witness ==
  \E t \in Slots :
    /\ C4_Dispatching(t)
    /\ held_repeaters[note[t]] = t
    /\ hist[t].ndisp >= 1

\* C10: the main thread never ends in an exception; the registry lock is held
\* by the main thread only, inside the two `with` blocks, so never by a thread
\* that dispatches or sleeps, and it is free whenever the main thread asks for
\* it; every handler the main thread has entered returns to the loop
C10_LockIsShortLived ==
  /\ repeat_lock \in {NoThread, Main}
  /\ repeat_lock = Main => pc[Main] \in {"sr_body", "stop_pop"}
  /\ pc[Main] \in {"start_repeat", "stop_repeat"} => repeat_lock = NoThread
C10_LoopKeepsConsuming ==
  /\ [](pc[Main] # "crashed")
  /\ []C10_LockIsShortLived
  /\ (pc[Main] # "loop") ~> (pc[Main] = "loop")
\* the main thread is back at the loop after a failed delivery while a repeater
\* is in the middle of one
C10_Witness ==
  /\ pc[Main] = "loop"
  /\ hist[Main].notfound
  /\ \E t \in Slots : pc[t] = "inject"

(* ---- the claims about the handlers and the loop ---- *)

\* the main thread takes this step from the top of the loop: it takes the
\* message taken' from the port
LoopPass == pc[Main] = "loop" /\ \A t \in Slots : pc'[t] = pc[t]

\* the message is a note message of the configured channel
OnChannelNote(m) == m.type \in NoteTypes /\ m.channel = MIDI_CHANNEL

\* the message is the press of a pad the action table does not map
UnmappedPress(m) ==
  /\ OnChannelNote(m)
  /\ m.type = "note_on" /\ m.velocity # 0
  /\ m.note \notin DOMAIN NOTE_ACTIONS

\* C11: the press of a note that the action table does not map makes no
\* send_action call, no window discovery and no injection, starts no repeater
\* thread and leaves the registry as it is, and writes exactly one line to
\* stderr; the main thread is back at the loop at once
C11_PressStep ==
  (LoopPass /\ UnmappedPress(taken')) =>
    /\ Len(diag') = 1
    /\ pc' = pc
    /\ hist'[Main].ndisp = 0
    /\ UNCHANGED <<inj, outcome, got, ardour_window, held_repeaters, stop_event, starts>>
C11_UnmappedNoteOnlyDiagnosed ==
  /\ [][C11_PressStep]_vars
  /\ [](UnmappedPress(taken) => (pc[Main] = "loop" /\ diag = <<"Info: Unmapped note_on">>))
\* the unmapped press was handled while a repeater was in the middle of a delivery
C11_Witness ==
  /\ UnmappedPress(taken)
  /\ Len(diag) = 1
  /\ \E t \in Slots : pc[t] = "inject"

\* stop_repeat finds no handle for its note: the step of the pop, and the step
\* of the test of `handle`
C12_PopsNothing == pc[Main] = "stop_pop" /\ pc'[Main] # "stop_pop" /\ held_repeaters[note[Main]] = NoThread
C12_NoHandle == pc[Main] = "stop_set" /\ pc'[Main] # "stop_set" /\ handle = NoThread
\* no repeater thread is started, ended or signalled by the step
C12_TasksUntouched ==
  /\ held_repeaters' = held_repeaters
  /\ stop_event' = stop_event
  /\ \A t \in Slots : pc'[t] = pc[t] /\ note'[t] = note[t]

\* C12 as stated: stop_repeat(note) with no task registered for the note writes
\* one diagnostic, leaves the registry and every repeat task as they are and
\* sets no stop event
C12_AsStatedStep == C12_NoHandle => (Len(diag') = Len(diag) + 1 /\ C12_TasksUntouched)
C12_AsStated == [][C12_AsStatedStep]_vars

\* C12 amended: stop_repeat(note) with no task registered for the note returns
\* to the loop, writes nothing (its line goes to debug(), which DEBUG_NOTES
\* silences), leaves the registry and every repeat task as they are and sets no
\* stop event
C12_PopStep == C12_PopsNothing => (handle' = NoThread /\ C12_TasksUntouched /\ diag' = diag)
C12_SetStep == C12_NoHandle => (diag' = diag /\ C12_TasksUntouched /\ pc'[Main] = "loop")
C12_StopWithoutTaskIsSilent ==
  /\ [][C12_PopStep]_vars
  /\ [][C12_SetStep]_vars
  /\ [](pc[Main] # "crashed")
\* the release of the pad that never repeats has been handled while the
\* repeater of another pad is registered and running
C12_Witness ==
  /\ pc[Main] = "loop"
  /\ taken.type = "note_off" /\ taken.note = NOTE_ZOOM_IN
  /\ diag = <<>>
  /\ \E t \in Slots : held_repeaters[NOTE_ARROW_RIGHT] = t /\ pc[t] = "interval"

\* the message is a note_on of velocity 0 on the configured channel
ZeroVelocityNoteOn(m) == OnChannelNote(m) /\ m.type = "note_on" /\ m.velocity = 0

\* C16: a note_on of velocity 0 on the configured channel takes the path of a
\* note_off: the step removes the note from active_notes and goes on to
\* stop_repeat(note), without a send_action call or a start_repeat call; while
\* it is the message being handled the main thread is in stop_repeat or back at
\* the loop, and once it is back the registry has no entry for the note
C16_ReleaseStep ==
  (LoopPass /\ ZeroVelocityNoteOn(taken')) =>
    /\ active_notes' = active_notes \ {taken'.note}
    /\ pc'[Main] = "stop_repeat"
    /\ note'[Main] = taken'.note
    /\ hist'[Main].ndisp = 0
    /\ UNCHANGED <<inj, outcome, got, ardour_window, held_repeaters, stop_event, starts>>
    /\ \A t \in Slots : pc'[t] = pc[t]
C16_ZeroVelocityIsRelease ==
  /\ [][C16_ReleaseStep]_vars
  /\ [](ZeroVelocityNoteOn(taken) =>
          /\ pc[Main] \in {"stop_repeat", "stop_pop", "stop_set", "loop"}
          /\ hist[Main].ndisp = 0
          /\ taken.note \notin active_notes
          /\ pc[Main] = "loop" => held_repeaters[taken.note] = NoThread)
\* a note_on of velocity 0 has ended the repeater of its pad
C16_Witness ==
  /\ ZeroVelocityNoteOn(taken)
  /\ pc[Main] = "loop"
  /\ \E t \in Slots : note[t] = taken.note /\ stop_event[t] /\ hist[t].ndisp >= 1

\* the message is a press of a pad the action table maps
MappedPress(m) ==
  /\ OnChannelNote(m)
  /\ m.type = "note_on" /\ m.velocity # 0
  /\ m.note \in DOMAIN NOTE_ACTIONS

\* C17: the press of a mapped note enters send_action once, from the loop and
\* without a count, and every injection of that call carries the action's
\* immediate_count; start_repeat is entered after that call has returned, so a
\* repeater exists only after the dispatch of the press that started it; every
\* injection of a repeater carries the hold_repeat_count (note 56: 1 and 3);
\* a pad without hold_repeat_count (note 49) never has a repeater
C17_PressStep ==
  (pc'[Main] = "send_action" /\ pc[Main] # "send_action") =>
    /\ pc[Main] = "loop"
    /\ MappedPress(taken')
    /\ note'[Main] = taken'.note
    /\ count'[Main] = NoCount
    /\ hist'[Main].ndisp = 0
C17_ImmediateCount ==
  \A i \in 1..Len(inj[Main]) :
    /\ inj[Main][i].count = NOTE_ACTIONS[note[Main]].immediate_count
    /\ note[Main] = NOTE_ARROW_RIGHT => inj[Main][i].count = ARROW_RIGHT_SINGLE_PRESS
C17_DispatchedBeforeStartRepeat ==
  pc[Main] \in {"start_repeat", "sr_body"} =>
    /\ hist[Main].ndisp = 1
    /\ inj[Main] = <<>> /\ result[Main] = "none"
C17_Repeaters ==
  \A t \in Slots : IsAlive(t) =>
    /\ hist[t].imm = 1
    /\ note[t] \in RepeatNotes
    /\ \A i \in 1..Len(inj[t]) :
         /\ inj[t][i].count = NOTE_ACTIONS[note[t]].hold_repeat_count
         /\ note[t] = NOTE_ARROW_RIGHT => inj[t][i].count = ARROW_RIGHT_REPEAT_COUNT
C17_ImmediateThenRepeat ==
  /\ [][C17_PressStep]_vars
  /\ [](C17_ImmediateCount /\ C17_DispatchedBeforeStartRepeat /\ C17_Repeaters)
  /\ [](held_repeaters[NOTE_ZOOM_IN] = NoThread /\ \A t \in Slots : note[t] # NOTE_ZOOM_IN)
\* the pad that never repeats is pressed and has its one injection behind it,
\* while a repeater of note 56 has made an injection of its own
C17_Witness ==
  /\ note[Main] = NOTE_ZOOM_IN /\ pc[Main] = "sa_ret" /\ Len(inj[Main]) = 1
  /\ \E t \in Slots :
       /\ note[t] = NOTE_ARROW_RIGHT
       /\ inj[t] # <<>> /\ inj[t][1].count = ARROW_RIGHT_REPEAT_COUNT

\* the message is a release (either form) of note n on the configured channel
ReleaseOf(m, n) ==
  /\ OnChannelNote(m)
  /\ m.note = n
  /\ m.type = "note_off" \/ m.velocity = 0

\* every registered note is pressed, repeats, and has an unset stop event
C19_Registered(n) ==
  /\ n \in active_notes
  /\ n \in RepeatNotes
  /\ ~stop_event[held_repeaters[n]]

\* C19 as stated: in every reachable state every note in the registry is in
\* active_notes, maps to an action with a hold_repeat_count and has an unset
\* stop event
C19_AsStated == \A n \in Notes : held_repeaters[n] # NoThread => C19_Registered(n)

\* C19 amended: the same in every state but those inside handle_note_off(n)
\* between active_notes.pop (line 261) and held_repeaters.pop (line 222), where
\* n is still registered but no longer in active_notes; a stop event is set
\* only for a handle that is not in the registry; once a release of n has been
\* handled the registry has no entry for n
C19_BeingReleased(n) == pc[Main] \in {"stop_repeat", "stop_pop"} /\ note[Main] = n
C19_SetAfterRemoval ==
  \A t \in Slots : (stop_event'[t] /\ ~stop_event[t]) =>
    \A n \in Notes : held_repeaters[n] # t /\ held_repeaters'[n] # t
C19_RegistryInvariants ==
  /\ [](\A n \in Notes : held_repeaters[n] # NoThread =>
          /\ n \in RepeatNotes
          /\ ~stop_event[held_repeaters[n]]
          /\ ~C19_BeingReleased(n) => n \in active_notes)
  /\ [][C19_SetAfterRemoval]_vars
  /\ [](\A n \in Notes : (pc[Main] = "loop" /\ taken.type \in NoteTypes /\ ReleaseOf(taken, n))
          => held_repeaters[n] = NoThread)
\* a release has been handled: its handle is out of the registry and signalled
C19_Witness ==
  /\ pc[Main] = "loop"
  /\ \E n \in RepeatNotes : \E t \in Slots :
       /\ taken.type \in NoteTypes /\ ReleaseOf(taken, n)
       /\ note[t] = n /\ stop_event[t] /\ held_repeaters[n] = NoThread

(* ---- the claims about the touchpad and the channel filter ---- *)

\* the message is a sample of the vertical axis / of the horizontal axis
VerticalSample(m) ==
  m.type = "control_change" /\ m.channel = MIDI_CHANNEL /\ m.control = TOUCHPAD_CONTROLLER
HorizontalSample(m) == m.type = "pitchwheel" /\ m.channel = MIDI_CHANNEL

\* q is num / den with the fraction cut off, towards zero
C13_TowardZero(q, num, den) ==
  IF num >= 0 THEN q >= 0 /\ q * den <= num /\ num < (q + 1) * den
  ELSE q <= 0 /\ q * den >= num /\ num > (q - 1) * den

\* C13: per axis, the first sample makes no move_mouse call, a later sample
\* moves by (value - previous sample of the axis) * sensitivity cut off towards
\* zero (4 on dy, 0.05 on dx) and by nothing on the other axis; after every
\* sample the baseline of the axis is that sample and the baseline of the other
\* axis is what it was
C13_VerticalStep ==
  (LoopPass /\ VerticalSample(taken')) =>
    /\ last_touchpad_cc' = taken'.value
    /\ last_touchpad_pitch' = last_touchpad_pitch
    /\ motion'.dx = 0
    /\ IF last_touchpad_cc = NoSample THEN motion' = NoMotion
       ELSE C13_TowardZero(motion'.dy, (taken'.value - last_touchpad_cc) * 4, 1)
C13_HorizontalStep ==
  (LoopPass /\ HorizontalSample(taken')) =>
    /\ last_touchpad_pitch' = taken'.pitch
    /\ last_touchpad_cc' = last_touchpad_cc
    /\ motion'.dy = 0
    /\ IF last_touchpad_pitch = NoSample THEN motion' = NoMotion
       ELSE C13_TowardZero(motion'.dx, (taken'.pitch - last_touchpad_pitch) * 5, 100)
C13_DeltaScaledPerAxis ==
  /\ [][C13_VerticalStep]_vars
  /\ [][C13_HorizontalStep]_vars
\* a horizontal sample 39 below the previous one has moved the pointer by -1,
\* with the vertical baseline of an earlier sample still in place
C13_Witness ==
  /\ HorizontalSample(taken)
  /\ motion.called /\ motion.dx = -1
  /\ last_touchpad_cc = 70

\* C14 as stated: a sample that is not the first of its axis runs the
\* relative-motion command if and only if it differs from the previous sample
C14_VerticalIff ==
  (LoopPass /\ VerticalSample(taken') /\ last_touchpad_cc # NoSample) =>
    (motion'.ran <=> taken'.value # last_touchpad_cc)
C14_HorizontalIff ==
  (LoopPass /\ HorizontalSample(taken') /\ last_touchpad_pitch # NoSample) =>
    (motion'.ran <=> taken'.pitch # last_touchpad_pitch)
C14_MotionIffDelta ==
  /\ [][C14_VerticalIff]_vars
  /\ [][C14_HorizontalIff]_vars

\* C15: a message on another channel changes nothing: active_notes, the
\* registry, the two baselines and the window cache stay as they are, no thread
\* takes a step or is started or signalled, no discovery or injection is made,
\* and nothing is written to stderr
C15_DropStep ==
  (LoopPass /\ taken'.type # "none" /\ taken'.channel # MIDI_CHANNEL) =>
    /\ UNCHANGED <<active_notes, held_repeaters, last_touchpad_cc, last_touchpad_pitch,
                   ardour_window, pc, note, stop_event, starts, handle, repeat_lock,
                   hist, callVars>>
    /\ diag' = <<>>
    /\ motion' = NoMotion
C15_OtherChannelIsDropped == [][C15_DropStep]_vars
\* a message of the other channel has been taken while a pad was held with its
\* repeater registered, the window cached and the vertical axis sampled
C15_Witness ==
  /\ taken.type = "note_on" /\ taken.channel = OTHER_CHANNEL
  /\ pc[Main] = "loop"
  /\ held_repeaters[NOTE_ARROW_LEFT] # NoThread
  /\ NOTE_ARROW_LEFT \in active_notes
  /\ Truthy(ardour_window)
  /\ last_touchpad_cc # NoSample

(* ---- the claim about the window cache ---- *)

\* the discovery of a get_ardour_window call found no window / found one
DiscoveryFailed(o) == o.exc \in {"CalledProcessError", "IndexError"} \/ (o.exc = "none" /\ ~Truthy(o.line))
DiscoverySucceeded(o) == o.exc = "none" /\ Truthy(o.line)

\* the last get_ardour_window call of thread t has returned
Resolved(t) == pc[t] \in {"inject", "sa_ret"}

\* C18: a get_ardour_window call returns absent only if its own discovery
\* failed, and a call whose discovery found a window returns that window,
\* whatever the other threads do to the cache in between
C18_AtomicResolution ==
  \A t \in Threads : Resolved(t) =>
    /\ ~Truthy(got[t]) => DiscoveryFailed(outcome[t])
    /\ DiscoverySucceeded(outcome[t]) => got[t] = outcome[t].line

(* ---- the claim about midi_zoom.py ---- *)

\* the threads of midi_zoom.py that are in the `while True` loop of
\* repeat_key / repeat_click for note n
ZoomRepeating(n) ==
  {t \in Slots : zoom_note[t] = n
                 /\ zoom_pc[t] \in {"loop_lock", "loop_check", "press_key", "interval"}}

\* C20: in midi_zoom.py at most one thread is in the repeat loop of a note at
\* any time, also when the note is released and pressed again before the
\* thread of the earlier press has finished its REPEAT_DELAY sleep
C20_OneRepeatThreadPerNote == \A n \in Notes : Cardinality(ZoomRepeating(n)) <= 1

====
